---- MODULE Spec2Model ----
(***************************************************************************)
(* xray2link.py: generate Xray share links (vless, vmess, trojan) or list  *)
(* the client emails of a config.json.                                     *)
(*                                                                         *)
(* Python strings are sequences of one-character strings, JSON scalars are *)
(* tagged records, JSON objects are records whose fields carry the tag     *)
(* "absent" when the key is not in the object.                             *)
(***************************************************************************)
EXTENDS Integers, Sequences, FiniteSets, TLC

VARIABLES pc, args, PYQRCODE_AVAILABLE, config, emails, client_info, url,
          stdout, stderr, exit_code, calls

vars == <<pc, args, PYQRCODE_AVAILABLE, config, emails, client_info, url,
          stdout, stderr, exit_code, calls>>

----------------------------------------------------------------------------
(* Characters and strings *)

Ascii ==
    << " ", "!", "\"", "#", "$", "%", "&", "'", "(", ")", "*", "+", ",", "-",
       ".", "/", "0", "1", "2", "3", "4", "5", "6", "7", "8", "9", ":", ";",
       "<", "=", ">", "?", "@", "A", "B", "C", "D", "E", "F", "G", "H", "I",
       "J", "K", "L", "M", "N", "O", "P", "Q", "R", "S", "T", "U", "V", "W",
       "X", "Y", "Z", "[", "\\", "]", "^", "_", "GRAVE", "a", "b", "c", "d", "e",
       "f", "g", "h", "i", "j", "k", "l", "m", "n", "o", "p", "q", "r", "s",
       "t", "u", "v", "w", "x", "y", "z", "{", "|", "}", "~" >>

AsciiSet == {Ascii[i] : i \in 1..Len(Ascii)}

\* ord(c) of a printable ASCII character: Ascii[1] is the space, code 32;
\* the grave accent (code 96) cannot be written in a string and has a placeholder
Ord == [c \in AsciiSet |-> 31 + (CHOOSE i \in 1..Len(Ascii) : Ascii[i] = c)]

\* Python's comparison of two str values: lexicographic by code point
RECURSIVE StrLess(_, _)
StrLess(a, b) ==
    IF b = <<>> THEN FALSE
    ELSE IF a = <<>> THEN TRUE
    ELSE IF Ord[Head(a)] # Ord[Head(b)] THEN Ord[Head(a)] < Ord[Head(b)]
    ELSE StrLess(Tail(a), Tail(b))

RECURSIVE Join(_, _)
Join(parts, sep) ==
    IF parts = <<>> THEN <<>>
    ELSE IF Len(parts) = 1 THEN parts[1]
    ELSE parts[1] \o sep \o Join(Tail(parts), sep)

----------------------------------------------------------------------------
(* JSON values as Python sees them *)

Absent == [t |-> "absent", s |-> <<>>, n |-> 0]
None == [t |-> "null", s |-> <<>>, n |-> 0]
Str(cs) == [t |-> "str", s |-> cs, n |-> 0]
Num(k) == [t |-> "int", s |-> <<>>, n |-> k]

\* d.get(key): None when the key is absent
get(v) == IF v.t = "absent" THEN None ELSE v

\* d.get(key, default)
get_default(v, default) == IF v.t = "absent" THEN default ELSE v

\* truth value of a str, int or None
truthy(v) == (v.t = "str" /\ v.s # <<>>) \/ (v.t = "int" /\ v.n # 0)

DigitChars == <<"0", "1", "2", "3", "4", "5", "6", "7", "8", "9">>

RECURSIVE int_str(_)
int_str(k) ==
    IF k < 10 THEN <<DigitChars[k + 1]>>
    ELSE int_str(k \div 10) \o <<DigitChars[(k % 10) + 1]>>

\* str(x), also what an f-string makes of {x}
py_str(v) ==
    IF v.t = "str" THEN v.s
    ELSE IF v.t = "int" THEN int_str(v.n)
    ELSE <<"N", "o", "n", "e">>

----------------------------------------------------------------------------
(* urllib.parse.quote, quote_plus, urlencode *)

AlwaysSafe ==
    {Ascii[i] : i \in {j \in 1..Len(Ascii) :
        \/ Ord[Ascii[j]] \in 48..57
        \/ Ord[Ascii[j]] \in 65..90
        \/ Ord[Ascii[j]] \in 97..122}} \cup {"_", ".", "-", "~"}

HexChars == <<"0", "1", "2", "3", "4", "5", "6", "7", "8", "9",
              "A", "B", "C", "D", "E", "F">>

quote_char(c, safe) ==
    IF c \in AlwaysSafe \cup safe THEN <<c>>
    ELSE <<"%", HexChars[(Ord[c] \div 16) + 1], HexChars[(Ord[c] % 16) + 1]>>

RECURSIVE quote_safe(_, _)
quote_safe(cs, safe) ==
    IF cs = <<>> THEN <<>>
    ELSE quote_char(Head(cs), safe) \o quote_safe(Tail(cs), safe)

\* quote(string): safe defaults to '/'
quote(cs) == quote_safe(cs, {"/"})

\* quote_plus(string): safe is empty, the space becomes '+'
quote_plus(cs) ==
    LET q == quote_safe(cs, {" "})
    IN  [i \in 1..Len(q) |-> IF q[i] = " " THEN "+" ELSE q[i]]

\* params[key] = value on an insertion-ordered dict of <<key, value>> pairs
dict_set(d, key, value) ==
    IF \E i \in 1..Len(d) : d[i][1] = key
    THEN [i \in 1..Len(d) |-> IF d[i][1] = key THEN <<key, value>> ELSE d[i]]
    ELSE Append(d, <<key, value>>)

\* urlencode(params): key=value pairs in the dict's order, joined by '&'
urlencode(params) ==
    Join([i \in 1..Len(params) |->
            quote_plus(params[i][1]) \o <<"=">> \o quote_plus(py_str(params[i][2]))],
         <<"&">>)

----------------------------------------------------------------------------
(* json.dumps(obj, sort_keys=True, separators=(',', ':')) and base64 *)

RECURSIVE json_escape(_)
json_escape(cs) ==
    IF cs = <<>> THEN <<>>
    ELSE (IF Head(cs) \in {"\"", "\\"} THEN <<"\\", Head(cs)>> ELSE <<Head(cs)>>)
         \o json_escape(Tail(cs))

json_value(v) ==
    IF v.t = "str" THEN <<"\"">> \o json_escape(v.s) \o <<"\"">>
    ELSE IF v.t = "int" THEN int_str(v.n)
    ELSE <<"n", "u", "l", "l">>

\* the items of a dict ordered by key, as sort_keys=True orders them
RECURSIVE sort_items(_)
sort_items(d) ==
    IF d = <<>> THEN <<>>
    ELSE LET m == CHOOSE i \in 1..Len(d) :
                    \A j \in 1..Len(d) : j = i \/ StrLess(d[i][1], d[j][1])
         IN  <<d[m]>> \o sort_items(SubSeq(d, 1, m - 1) \o SubSeq(d, m + 1, Len(d)))

\* faulty variant of json_dumps: sort_keys is dropped, the keys keep the order
\* in which the dict got them
json_dumps_unsorted(d) ==
    <<"{">>
    \o Join([i \in 1..Len(d) |->
                <<"\"">> \o json_escape(d[i][1]) \o <<"\"", ":">>
                \o json_value(d[i][2])],
            <<",">>)
    \o <<"}">>

json_dumps(d) ==
    LET items == sort_items(d)
    IN  <<"{">>
        \o Join([i \in 1..Len(items) |->
                    <<"\"">> \o json_escape(items[i][1]) \o <<"\"", ":">>
                    \o json_value(items[i][2])],
                <<",">>)
        \o <<"}">>

B64Chars ==
    << "A", "B", "C", "D", "E", "F", "G", "H", "I", "J", "K", "L", "M", "N",
       "O", "P", "Q", "R", "S", "T", "U", "V", "W", "X", "Y", "Z", "a", "b",
       "c", "d", "e", "f", "g", "h", "i", "j", "k", "l", "m", "n", "o", "p",
       "q", "r", "s", "t", "u", "v", "w", "x", "y", "z", "0", "1", "2", "3",
       "4", "5", "6", "7", "8", "9", "+", "/" >>

\* base64.b64encode(text.encode()).decode() for ASCII text
b64encode(cs) ==
    LET len == Len(cs)
        groups == (len + 2) \div 3
        pad == (3 - (len % 3)) % 3
        byte(i) == IF i <= len THEN Ord[cs[i]] ELSE 0
        word(g) == byte(3 * g + 1) * 65536 + byte(3 * g + 2) * 256 + byte(3 * g + 3)
        sextet(k) ==
            LET w == word((k - 1) \div 4)
                j == (k - 1) % 4
            IN  IF j = 0 THEN w \div 262144
                ELSE IF j = 1 THEN (w \div 4096) % 64
                ELSE IF j = 2 THEN (w \div 64) % 64
                ELSE w % 64
    IN  [k \in 1..(4 * groups) |->
            IF k > 4 * groups - pad THEN "=" ELSE B64Chars[sextet(k) + 1]]

----------------------------------------------------------------------------
(* String literals of the source *)

S_vless == <<"v", "l", "e", "s", "s">>
S_vmess == <<"v", "m", "e", "s", "s">>
S_trojan == <<"t", "r", "o", "j", "a", "n">>
S_ws == <<"w", "s">>
S_grpc == <<"g", "r", "p", "c">>
S_tls == <<"t", "l", "s">>
S_xtls == <<"x", "t", "l", "s">>
S_none == <<"n", "o", "n", "e">>
S_type == <<"t", "y", "p", "e">>
S_security == <<"s", "e", "c", "u", "r", "i", "t", "y">>
S_flow == <<"f", "l", "o", "w">>
S_sni == <<"s", "n", "i">>
S_fp == <<"f", "p">>
S_path == <<"p", "a", "t", "h">>
S_host == <<"h", "o", "s", "t">>
S_serviceName == <<"s", "e", "r", "v", "i", "c", "e", "N", "a", "m", "e">>
S_v == <<"v">>
S_ps == <<"p", "s">>
S_add == <<"a", "d", "d">>
S_port == <<"p", "o", "r", "t">>
S_id == <<"i", "d">>
S_aid == <<"a", "i", "d">>
S_net == <<"n", "e", "t">>
S_vless_scheme == <<"v", "l", "e", "s", "s", ":", "/", "/">>
S_vmess_scheme == <<"v", "m", "e", "s", "s", ":", "/", "/">>
S_trojan_scheme == <<"t", "r", "o", "j", "a", "n", ":", "/", "/">>

----------------------------------------------------------------------------
(* JSON objects of the configuration.  Field t is "dict" for an object,    *)
(* "null" for a JSON null and "absent" when the key holding it is missing. *)

SecuritySettings(t, serverName, fingerprint) ==
    [t |-> t, serverName |-> serverName, fingerprint |-> fingerprint]

Headers(t, Host) == [t |-> t, Host |-> Host]

WsSettings(t, path, headers) == [t |-> t, path |-> path, headers |-> headers]

GrpcSettings(t, serviceName) == [t |-> t, serviceName |-> serviceName]

StreamSettings(t, network, security, tls, xtls, ws, grpc) ==
    [t |-> t, network |-> network, security |-> security,
     tlsSettings |-> tls, xtlsSettings |-> xtls,
     wsSettings |-> ws, grpcSettings |-> grpc]

Client(id, email, password, flow, alterId) ==
    [id |-> id, email |-> email, password |-> password, flow |-> flow,
     alterId |-> alterId]

\* the empty object {} of each shape, the default of the .get(key, {}) calls
EmptySecuritySettings == SecuritySettings("dict", Absent, Absent)
EmptyHeaders == Headers("dict", Absent)
EmptyWsSettings == WsSettings("dict", Absent, Headers("absent", Absent))
EmptyGrpcSettings == GrpcSettings("dict", Absent)
EmptyStreamSettings ==
    StreamSettings("dict", Absent, Absent,
                   SecuritySettings("absent", Absent, Absent),
                   SecuritySettings("absent", Absent, Absent),
                   WsSettings("absent", Absent, Headers("absent", Absent)),
                   GrpcSettings("absent", Absent))

\* what an encoder gives back: a URL, or an exception
Return(u) == [raised |-> FALSE, url |-> u]
Raise == [raised |-> TRUE, url |-> <<>>]

----------------------------------------------------------------------------
(* create_vless_url and create_trojan_url *)

\* stream_settings.get(f"{security}Settings", {}) for security in ['tls', 'xtls']
security_settings_of(stream_settings, security) ==
    get_default(IF security = Str(S_tls) THEN stream_settings.tlsSettings
                ELSE stream_settings.xtlsSettings,
                EmptySecuritySettings)

\* the sni and fp parameters
tls_params(params, security_settings) ==
    LET p1 == IF truthy(get(security_settings.serverName))
              THEN dict_set(params, S_sni, get(security_settings.serverName))
              ELSE params
    IN  IF truthy(get(security_settings.fingerprint))
        THEN dict_set(p1, S_fp, get(security_settings.fingerprint))
        ELSE p1

\* the ws and grpc parameters
transport_params(params, network, stream_settings) ==
    IF network = Str(S_ws)
    THEN LET ws_settings == get_default(stream_settings.wsSettings, EmptyWsSettings)
             headers == get_default(ws_settings.headers, EmptyHeaders)
             p1 == IF truthy(get(ws_settings.path))
                   THEN dict_set(params, S_path, get(ws_settings.path))
                   ELSE params
         IN  IF truthy(get(headers.Host))
             THEN dict_set(p1, S_host, get(headers.Host))
             ELSE p1
    ELSE IF network = Str(S_grpc)
    THEN LET grpc_settings ==
                 get_default(stream_settings.grpcSettings, EmptyGrpcSettings)
         IN  IF truthy(get(grpc_settings.serviceName))
             THEN dict_set(params, S_serviceName, get(grpc_settings.serviceName))
             ELSE params
    ELSE params

\* the .get of a None (AttributeError) in the ws and grpc branches
transport_raises(network, stream_settings) ==
    \/ /\ network = Str(S_ws)
       /\ LET ws_settings == get_default(stream_settings.wsSettings, EmptyWsSettings)
          IN  \/ ws_settings.t = "null"
              \/ get_default(ws_settings.headers, EmptyHeaders).t = "null"
    \/ /\ network = Str(S_grpc)
       /\ get_default(stream_settings.grpcSettings, EmptyGrpcSettings).t = "null"

\* faulty variant of vless_params: type is left out when there is no network
vless_params_type_if_set(client_data, stream_settings) ==
    LET network == get(stream_settings.network)
        security == get(stream_settings.security)
        p1 == IF truthy(network) THEN dict_set(<<>>, S_type, network) ELSE <<>>
        p2 == IF truthy(security) /\ security # Str(S_none)
              THEN dict_set(p1, S_security, security)
              ELSE p1
        p3 == IF truthy(get(client_data.flow))
              THEN dict_set(p2, S_flow, get(client_data.flow))
              ELSE p2
        p4 == IF security \in {Str(S_tls), Str(S_xtls)}
              THEN tls_params(p3, security_settings_of(stream_settings, security))
              ELSE p3
    IN  transport_params(p4, network, stream_settings)

\* faulty variant of vless_params: security is added whenever it is set, "none"
\* included
vless_params_security_if_set(client_data, stream_settings) ==
    LET network == get(stream_settings.network)
        security == get(stream_settings.security)
        p1 == dict_set(<<>>, S_type, network)
        p2 == IF truthy(security) THEN dict_set(p1, S_security, security) ELSE p1
        p3 == IF truthy(get(client_data.flow))
              THEN dict_set(p2, S_flow, get(client_data.flow))
              ELSE p2
        p4 == IF security \in {Str(S_tls), Str(S_xtls)}
              THEN tls_params(p3, security_settings_of(stream_settings, security))
              ELSE p3
    IN  transport_params(p4, network, stream_settings)

\* the params dict of create_vless_url
vless_params(client_data, stream_settings) ==
    LET network == get(stream_settings.network)
        security == get(stream_settings.security)
        p1 == dict_set(<<>>, S_type, network)
        p2 == IF truthy(security) /\ security # Str(S_none)
              THEN dict_set(p1, S_security, security)
              ELSE p1
        p3 == IF truthy(get(client_data.flow))
              THEN dict_set(p2, S_flow, get(client_data.flow))
              ELSE p2
        p4 == IF security \in {Str(S_tls), Str(S_xtls)}
              THEN tls_params(p3, security_settings_of(stream_settings, security))
              ELSE p3
    IN  transport_params(p4, network, stream_settings)

\* faulty variant of trojan_params: type is added before the security parameters
trojan_params_type_first(stream_settings) ==
    LET network == get(stream_settings.network)
        security == get(stream_settings.security)
        p1 == IF truthy(network) THEN dict_set(<<>>, S_type, network) ELSE <<>>
        p2 == IF truthy(security) /\ security \in {Str(S_tls), Str(S_xtls)}
              THEN tls_params(dict_set(p1, S_security, security),
                              security_settings_of(stream_settings, security))
              ELSE p1
    IN  transport_params(p2, network, stream_settings)

\* the params dict of create_trojan_url
trojan_params(stream_settings) ==
    LET network == get(stream_settings.network)
        security == get(stream_settings.security)
        p1 == IF truthy(security) /\ security \in {Str(S_tls), Str(S_xtls)}
              THEN tls_params(dict_set(<<>>, S_security, security),
                              security_settings_of(stream_settings, security))
              ELSE <<>>
        p2 == IF truthy(network) THEN dict_set(p1, S_type, network) ELSE p1
    IN  transport_params(p2, network, stream_settings)

\* the exceptions of both functions: quote() of an email that is no str
\* (TypeError), .get on a stream_settings or a settings object that is None
url_raises(client_data, stream_settings) ==
    \/ get_default(client_data.email, Str(<<>>)).t # "str"
    \/ stream_settings.t = "null"
    \/ LET security == get(stream_settings.security)
       IN  /\ security \in {Str(S_tls), Str(S_xtls)}
           /\ security_settings_of(stream_settings, security).t = "null"
    \/ transport_raises(get(stream_settings.network), stream_settings)

\* url, then "?" and the encoded params if there are any, then "#" and the remark
finish_url(base, params, remark) ==
    base \o (IF params # <<>> THEN <<"?">> \o urlencode(params) ELSE <<>>)
         \o <<"#">> \o remark

create_vless_url(info, server_address) ==
    LET client_data == info.client_data
        port == info.port
        stream_settings == info.stream_settings
        uuid == get(client_data.id)
        remark == quote(get_default(client_data.email, Str(<<>>)).s)
        base == S_vless_scheme \o py_str(uuid) \o <<"@">> \o server_address
                \o <<":">> \o py_str(port)
    IN  IF url_raises(client_data, stream_settings) THEN Raise
        ELSE Return(finish_url(base, vless_params(client_data, stream_settings),
                               remark))

create_trojan_url(info, server_address) ==
    LET client_data == info.client_data
        port == info.port
        stream_settings == info.stream_settings
        password == get(client_data.password)
        remark == quote(get_default(client_data.email, Str(<<>>)).s)
        base == S_trojan_scheme \o py_str(password) \o <<"@">> \o server_address
                \o <<":">> \o py_str(port)
    IN  IF url_raises(client_data, stream_settings) THEN Raise
        ELSE Return(finish_url(base, trojan_params(stream_settings), remark))

----------------------------------------------------------------------------
(* create_vmess_url *)

\* the nine keys every share_data has
vmess_share_data(client_data, port, stream_settings, server_address) ==
    LET network == get(stream_settings.network)
        security == get(stream_settings.security)
    IN  << <<S_v, Str(<<"2">>)>>,
           <<S_ps, get_default(client_data.email, Str(<<>>))>>,
           <<S_add, Str(server_address)>>,
           <<S_port, Str(py_str(port))>>,
           <<S_id, get(client_data.id)>>,
           <<S_aid, Str(py_str(get_default(client_data.alterId, Num(0))))>>,
           <<S_net, network>>,
           <<S_type, Str(S_none)>>,
           <<S_tls, IF security \in {Str(S_tls), Str(S_xtls)} THEN security
                    ELSE Str(S_none)>> >>

\* faulty variant of vmess_transport: grpc gets the default "/" that ws has
vmess_transport_grpc_default(share_data, stream_settings, server_address) ==
    LET network == get(stream_settings.network)
    IN  IF network = Str(S_ws)
        THEN LET ws_settings ==
                     get_default(stream_settings.wsSettings, EmptyWsSettings)
                 headers == get_default(ws_settings.headers, EmptyHeaders)
             IN  dict_set(dict_set(share_data, S_path,
                                   get_default(ws_settings.path, Str(<<"/">>))),
                          S_host, get_default(headers.Host, Str(server_address)))
        ELSE IF network = Str(S_grpc)
        THEN LET grpc_settings ==
                     get_default(stream_settings.grpcSettings, EmptyGrpcSettings)
             IN  dict_set(share_data, S_path,
                          get_default(grpc_settings.serviceName, Str(<<"/">>)))
        ELSE share_data

\* the path and host keys of the ws and grpc networks
vmess_transport(share_data, stream_settings, server_address) ==
    LET network == get(stream_settings.network)
    IN  IF network = Str(S_ws)
        THEN LET ws_settings ==
                     get_default(stream_settings.wsSettings, EmptyWsSettings)
                 headers == get_default(ws_settings.headers, EmptyHeaders)
             IN  dict_set(dict_set(share_data, S_path,
                                   get_default(ws_settings.path, Str(<<"/">>))),
                          S_host, get_default(headers.Host, Str(server_address)))
        ELSE IF network = Str(S_grpc)
        THEN LET grpc_settings ==
                     get_default(stream_settings.grpcSettings, EmptyGrpcSettings)
             IN  dict_set(share_data, S_path, get(grpc_settings.serviceName))
        ELSE share_data

create_vmess_url(info, server_address) ==
    LET client_data == info.client_data
        port == info.port
        stream_settings == info.stream_settings
        share_data ==
            vmess_transport(vmess_share_data(client_data, port, stream_settings,
                                             server_address),
                            stream_settings, server_address)
        json_str == json_dumps(share_data)
        b64_str == b64encode(json_str)
    IN  IF \/ stream_settings.t = "null"
           \/ transport_raises(get(stream_settings.network), stream_settings)
        THEN Raise
        ELSE Return(S_vmess_scheme \o b64_str)

----------------------------------------------------------------------------
(* The Client Locator: list_all_clients and find_client_config *)

ClientList(t, list) == [t |-> t, list |-> list]

Settings(t, clients) == [t |-> t, clients |-> clients]

Inbound(protocol, port, streamSettings, settings) ==
    [protocol |-> protocol, port |-> port, streamSettings |-> streamSettings,
     settings |-> settings]

Config(inbounds) == [inbounds |-> inbounds]

\* the defaults [] and {} of the .get calls
EmptyList == ClientList("list", <<>>)
EmptySettings == Settings("dict", ClientList("absent", <<>>))

\* faulty variant: the protocol filter lets shadowsocks inbounds through
SupportedProtocolsAndShadowsocks ==
    {Str(S_vless), Str(S_vmess), Str(S_trojan),
     Str(<<"s", "h", "a", "d", "o", "w", "s", "o", "c", "k", "s">>)}

\* the protocol filter of both scans
SupportedProtocols == {Str(S_vless), Str(S_vmess), Str(S_trojan)}

\* the client list one iteration of the loop over inbounds reads:
\* inbound.get('settings', {}).get('clients', []), which raises when settings
\* is None; iterating it raises when it is None
inbound_raises(inbound) ==
    LET settings == get_default(inbound.settings, EmptySettings)
    IN  \/ settings.t = "null"
        \/ get_default(settings.clients, EmptyList).t = "null"

inbound_clients(inbound) ==
    get_default(get_default(inbound.settings, EmptySettings).clients,
                EmptyList).list

\* sorted(list(set(all_emails)))
RECURSIVE sorted(_)
sorted(S) ==
    IF S = {} THEN <<>>
    ELSE LET m == CHOOSE x \in S : \A y \in S : y = x \/ StrLess(x.s, y.s)
         IN  <<m>> \o sorted(S \ {m})

\* the emails appended while scanning inbounds[i..], or the exception
RECURSIVE all_emails_from(_, _)
all_emails_from(inbounds, i) ==
    IF i > Len(inbounds) THEN [raised |-> FALSE, list |-> <<>>]
    ELSE LET inbound == inbounds[i]
             rest == all_emails_from(inbounds, i + 1)
         IN  IF get(inbound.protocol) \notin SupportedProtocols THEN rest
             ELSE IF inbound_raises(inbound) \/ rest.raised
             THEN [raised |-> TRUE, list |-> <<>>]
             ELSE LET client_list == inbound_clients(inbound)
                      found == SelectSeq(client_list,
                                         LAMBDA client : truthy(get(client.email)))
                  IN  [raised |-> FALSE,
                       list |-> [j \in 1..Len(found) |-> get(found[j].email)]
                                \o rest.list]

list_all_clients(cfg) ==
    LET inbounds == get_default(cfg.inbounds, EmptyList)
        all_emails == all_emails_from(inbounds.list, 1)
    IN  IF inbounds.t = "null" \/ all_emails.raised
        THEN [raised |-> TRUE, list |-> <<>>]
        ELSE [raised |-> FALSE,
              list |-> sorted({all_emails.list[j] : j \in 1..Len(all_emails.list)})]

\* what find_client_config gives back: the dictionary, None, or an exception
ClientInfo(client_data, protocol, port, stream_settings) ==
    [t |-> "found", client_data |-> client_data, protocol |-> protocol,
     port |-> port, stream_settings |-> stream_settings]

NoClientInfo(t) ==
    [t |-> t, client_data |-> Client(Absent, Absent, Absent, Absent, Absent),
     protocol |-> None, port |-> None, stream_settings |-> EmptyStreamSettings]

\* the scan of inbounds[i..]
RECURSIVE find_from(_, _, _)
find_from(inbounds, i, client_email) ==
    IF i > Len(inbounds) THEN NoClientInfo("none")
    ELSE LET inbound == inbounds[i]
             protocol == get(inbound.protocol)
         IN  IF protocol \notin SupportedProtocols
             THEN find_from(inbounds, i + 1, client_email)
             ELSE IF inbound_raises(inbound) THEN NoClientInfo("raise")
             ELSE LET inbound_port == get(inbound.port)
                      stream_settings ==
                          get_default(inbound.streamSettings, EmptyStreamSettings)
                      client_list == inbound_clients(inbound)
                      hits == {j \in 1..Len(client_list) :
                                   get(client_list[j].email) = client_email}
                  IN  IF hits # {}
                      THEN ClientInfo(client_list[CHOOSE j \in hits :
                                                      \A k \in hits : j <= k],
                                      protocol, inbound_port, stream_settings)
                      ELSE find_from(inbounds, i + 1, client_email)

find_client_config(cfg, client_email) ==
    LET inbounds == get_default(cfg.inbounds, EmptyList)
    IN  IF inbounds.t = "null" THEN NoClientInfo("raise")
        ELSE find_from(inbounds.list, 1, client_email)

----------------------------------------------------------------------------
(* Values the variables hold while a specification does not use them *)

NoArgs ==
    [listemails |-> FALSE, qrcode |-> FALSE, server_address |-> None,
     client_email |-> None]
NoConfig == Config(ClientList("absent", <<>>))
NoEmails == [raised |-> FALSE, list |-> <<>>]
NoUrl == Return(<<>>)

----------------------------------------------------------------------------
(* The Link Encoders on their own: every encoder applied to a client       *)
(* context and a server address drawn from bounded sets                    *)

S_u == <<"u">>
S_p == <<"p">>
S_h == <<"h">>

EncNetworks == {Absent, Str(<<>>), Str(S_ws), Str(S_grpc), Str(<<"t", "c", "p">>)}

EncSecurities ==
    {Absent, None, Str(<<>>), Str(S_none), Str(S_tls), Str(S_xtls),
     Str(<<"r", "e", "a", "l", "i", "t", "y">>)}

AbsentSecuritySettings == SecuritySettings("absent", Absent, Absent)
FullSecuritySettings ==
    SecuritySettings("dict", Str(<<"s", ".", "n">>), Str(<<"c", "h">>))

\* <<tlsSettings, xtlsSettings>>
EncSecuritySettings ==
    { <<AbsentSecuritySettings, AbsentSecuritySettings>>,
      <<EmptySecuritySettings, AbsentSecuritySettings>>,
      <<FullSecuritySettings, AbsentSecuritySettings>>,
      <<SecuritySettings("dict", Str(<<"s", ".", "n">>), Absent),
        AbsentSecuritySettings>>,
      <<AbsentSecuritySettings, FullSecuritySettings>>,
      <<SecuritySettings("null", Absent, Absent), AbsentSecuritySettings>> }

AbsentHeaders == Headers("absent", Absent)
FullWsSettings ==
    WsSettings("dict", Str(<<"/", "r", " ">>), Headers("dict", Str(<<"x", ".", "y">>)))

EncWsSettings ==
    { WsSettings("absent", Absent, AbsentHeaders),
      EmptyWsSettings,
      FullWsSettings,
      WsSettings("dict", Str(<<>>), EmptyHeaders),
      WsSettings("dict", None, Headers("dict", None)),
      WsSettings("dict", Absent, Headers("null", Absent)),
      WsSettings("null", Absent, AbsentHeaders) }

EncGrpcSettings ==
    { GrpcSettings("absent", Absent),
      EmptyGrpcSettings,
      GrpcSettings("dict", Str(<<"g">>)),
      GrpcSettings("null", Absent) }

EncStreams ==
    { StreamSettings("dict", network, security, sec[1], sec[2], ws, grpc) :
        network \in EncNetworks, security \in EncSecurities,
        sec \in EncSecuritySettings, ws \in EncWsSettings,
        grpc \in EncGrpcSettings }

NullStreamSettings ==
    [EmptyStreamSettings EXCEPT !.t = "null"]

\* the transports on which every client variation is tried
EncClientStreams ==
    { EmptyStreamSettings,
      NullStreamSettings,
      StreamSettings("dict", Str(S_ws), Str(S_tls), FullSecuritySettings,
                     AbsentSecuritySettings, FullWsSettings,
                     GrpcSettings("absent", Absent)),
      StreamSettings("dict", Str(S_grpc), Str(S_xtls), AbsentSecuritySettings,
                     FullSecuritySettings, WsSettings("absent", Absent, AbsentHeaders),
                     GrpcSettings("dict", Str(<<"g">>))),
      StreamSettings("dict", Str(<<"t", "c", "p">>), Str(S_none),
                     AbsentSecuritySettings, AbsentSecuritySettings,
                     WsSettings("absent", Absent, AbsentHeaders),
                     GrpcSettings("absent", Absent)) }

EncClients ==
    { Client(Str(S_u), email, Str(S_p), flow, alterId) :
        email \in {Absent, None, Str(<<"a", " ", "#">>)},
        flow \in {Absent, Str(<<>>), Str(<<"f", "l">>)},
        alterId \in {Absent, Num(0), Num(64)} }

BaseClient == Client(Str(S_u), Str(<<"a", " ", "#">>), Str(S_p), Absent, Absent)

\* the inbound of the end-to-end example and its client alice
ExampleInfo ==
    ClientInfo(
        Client(Str(<<"1", "1", "1", "1", "1", "1", "1", "1", "-", "1", "1", "1",
                     "1", "-", "1", "1", "1", "1", "-", "1", "1", "1", "1", "-",
                     "1", "1", "1", "1", "1", "1", "1", "1", "1", "1", "1", "1">>),
               Str(<<"a", "l", "i", "c", "e">>), Absent, Absent, Absent),
        Str(S_vless), Num(443),
        StreamSettings("dict", Str(S_ws), Str(S_tls),
            SecuritySettings("dict",
                Str(<<"e", "x", "a", "m", "p", "l", "e", ".", "c", "o", "m">>),
                Absent),
            AbsentSecuritySettings,
            WsSettings("dict", Str(<<"/", "r", "a", "y">>),
                Headers("dict",
                    Str(<<"e", "x", "a", "m", "p", "l", "e", ".", "c", "o", "m">>))),
            GrpcSettings("absent", Absent)))

ExampleAddress == <<"1", ".", "2", ".", "3", ".", "4">>

\* <<client context, server address>>
EncInputs ==
    { <<ClientInfo(BaseClient, Str(S_vless), Num(443), ss), S_h>> : ss \in EncStreams }
    \cup { <<ClientInfo(c, Str(S_vless), port, ss), S_h>> :
             c \in EncClients, port \in {Num(443), None}, ss \in EncClientStreams }
    \cup { <<ExampleInfo, ExampleAddress>> }

InitEnc ==
    /\ pc = "start"
    /\ \E input \in EncInputs :
         /\ client_info = input[1]
         /\ args = [NoArgs EXCEPT !.server_address = Str(input[2])]
    /\ PYQRCODE_AVAILABLE = FALSE
    /\ config = NoConfig
    /\ emails = NoEmails
    /\ url = NoUrl
    /\ stdout = <<>>
    /\ stderr = <<>>
    /\ exit_code = 0
    /\ calls = <<>>

EncodeVless ==
    /\ pc = "start"
    /\ url' = create_vless_url(client_info, args.server_address.s)
    /\ pc' = "vless"
    /\ calls' = Append(calls, "create_vless_url")
    /\ UNCHANGED <<args, PYQRCODE_AVAILABLE, config, emails, client_info, stdout,
                   stderr, exit_code>>

EncodeVmess ==
    /\ pc = "start"
    /\ url' = create_vmess_url(client_info, args.server_address.s)
    /\ pc' = "vmess"
    /\ calls' = Append(calls, "create_vmess_url")
    /\ UNCHANGED <<args, PYQRCODE_AVAILABLE, config, emails, client_info, stdout,
                   stderr, exit_code>>

EncodeTrojan ==
    /\ pc = "start"
    /\ url' = create_trojan_url(client_info, args.server_address.s)
    /\ pc' = "trojan"
    /\ calls' = Append(calls, "create_trojan_url")
    /\ UNCHANGED <<args, PYQRCODE_AVAILABLE, config, emails, client_info, stdout,
                   stderr, exit_code>>

NextEnc == EncodeVless \/ EncodeVmess \/ EncodeTrojan

SpecEnc == InitEnc /\ [][NextEnc]_vars

----------------------------------------------------------------------------
(* Configuration documents.  A document is built from a sequence of inbound *)
(* shapes; the port, the transport and the client ids of an inbound tell    *)
(* its place in the document, so that a client context shows the inbound    *)
(* and the client it was taken from.                                        *)

MaxInbounds == 2
MaxClients == 2

SeqsUpTo(S, n) == UNION {[1..k -> S] : k \in 0..n}

Shape(protocol, st, ct, client_emails, stream) ==
    [protocol |-> protocol, st |-> st, ct |-> ct, emails |-> client_emails,
     stream |-> stream]

PlaceNetworks ==
    <<Str(S_ws), Str(S_grpc), Str(<<"t", "c", "p">>), Str(<<"k", "c", "p">>)>>

PlaceStream(i, stream) ==
    IF stream = "absent" THEN [EmptyStreamSettings EXCEPT !.t = "absent"]
    ELSE IF stream = "null" THEN NullStreamSettings
    ELSE IF stream = "full"
    THEN StreamSettings("dict", Str(S_ws), Str(S_tls), FullSecuritySettings,
                        AbsentSecuritySettings, FullWsSettings,
                        GrpcSettings("absent", Absent))
    ELSE [EmptyStreamSettings EXCEPT !.network = PlaceNetworks[((i - 1) % 4) + 1]]

PlaceInbound(i, shape) ==
    Inbound(shape.protocol, Num(8000 + i), PlaceStream(i, shape.stream),
            Settings(shape.st,
                ClientList(shape.ct,
                    [j \in 1..Len(shape.emails) |->
                        Client(Str(int_str(10 * i + j)), shape.emails[j],
                               Str(S_p), Absent, Absent)])))

Document(shapes) ==
    Config(ClientList("list", [i \in 1..Len(shapes) |-> PlaceInbound(i, shapes[i])]))

\* "inbounds" missing, and "inbounds": null
NoInboundsDocuments ==
    {Config(ClientList("absent", <<>>)), Config(ClientList("null", <<>>))}

S_shadowsocks == <<"s", "h", "a", "d", "o", "w", "s", "o", "c", "k", "s">>

Protocols == SupportedProtocols \cup {Str(S_shadowsocks)}

----------------------------------------------------------------------------
(* The Client Locator on its own: list_all_clients and find_client_config   *)
(* applied to a document and a target email drawn from bounded sets         *)

LocEmails == {Absent, None, Str(<<>>), Str(<<"b">>), Str(<<"a", "b">>)}

LocShapes ==
    { Shape(protocol, body[1], body[2], <<>>, stream) :
        protocol \in Protocols,
        body \in {<<"absent", "absent">>, <<"null", "absent">>,
                  <<"dict", "absent">>, <<"dict", "null">>},
        stream \in {"absent", "null", "dict"} }
    \cup { Shape(protocol, "dict", "list", client_emails, stream) :
             protocol \in Protocols,
             client_emails \in SeqsUpTo(LocEmails, MaxClients),
             stream \in {"absent", "null", "dict"} }

LocTargets == {Str(<<>>), Str(<<"b">>), Str(<<"a", "b">>), Str(<<"z">>)}

InitLocator ==
    /\ pc = "start"
    /\ \/ \E shapes \in SeqsUpTo(LocShapes, MaxInbounds) : config = Document(shapes)
       \/ config \in NoInboundsDocuments
    /\ args = NoArgs
    /\ PYQRCODE_AVAILABLE = FALSE
    /\ emails = NoEmails
    /\ client_info = NoClientInfo("none")
    /\ url = NoUrl
    /\ stdout = <<>>
    /\ stderr = <<>>
    /\ exit_code = 0
    /\ calls = <<>>

ListAll ==
    /\ pc = "start"
    /\ emails' = list_all_clients(config)
    /\ pc' = "list_all"
    /\ calls' = Append(calls, "list_all_clients")
    /\ UNCHANGED <<args, PYQRCODE_AVAILABLE, config, client_info, url, stdout,
                   stderr, exit_code>>

FindByEmail ==
    /\ pc = "start"
    /\ \E client_email \in LocTargets :
         /\ args' = [args EXCEPT !.client_email = client_email]
         /\ client_info' = find_client_config(config, client_email)
    /\ pc' = "find"
    /\ calls' = Append(calls, "find_client_config")
    /\ UNCHANGED <<PYQRCODE_AVAILABLE, config, emails, url, stdout, stderr,
                   exit_code>>

NextLocator == ListAll \/ FindByEmail

SpecLocator == InitLocator /\ [][NextLocator]_vars

----------------------------------------------------------------------------
(* The program: main, one run from the parsed command line to the exit      *)

\* messages written to the error stream
MsgQrWarning == "Warning: --qrcode flag was used, but 'pyqrcode' module is not installed."
MsgQrInstall == "Please install it with 'pip install pyqrcode' to use this feature."
MsgQrFallback == "Falling back to text URL output."
MsgQrRule == "------------------------------"
MsgFileNotFound == "Error: Config file not found"
MsgJsonDecode == "Error: Could not decode JSON"
MsgReadError == "An unexpected error occurred while reading the file"
MsgNoEmails == "No client emails found in the configuration."
MsgUsage == "error: The arguments server_address and client_email are required when --listemails is not used."
MsgClientNotFound == "Error: Client with email not found in any inbounds."
MsgUnsupported == "Error: Unsupported protocol"
MsgEncoding == "An error occurred during URL generation"
MsgQrError == "Error generating QR code"
\* an exception no handler of main catches: the interpreter prints the
\* traceback and ends the process with status 1
MsgTraceback == "Traceback (most recent call last):"

\* lines written to the standard output
Line(s) == [kind |-> "line", s |-> s]
QrCode(s) == [kind |-> "qr", s |-> s]
S_found_emails ==
    <<"F", "o", "u", "n", "d", " ", "c", "l", "i", "e", "n", "t", " ", "e",
      "m", "a", "i", "l", "s", ":">>
S_url_instead ==
    <<"H", "e", "r", "e", " ", "i", "s", " ", "t", "h", "e", " ", "U", "R",
      "L", " ", "s", "t", "r", "i", "n", "g", " ", "i", "n", "s", "t", "e",
      "a", "d", ":">>
S_dash == <<"-", " ">>

S_a == <<"a">>
S_b == <<"b">>
S_z == <<"z">>

MainShapes ==
    { Shape(protocol, "dict", "list", <<Str(S_a)>>, "full") : protocol \in Protocols }
    \cup { Shape(Str(S_trojan), "dict", "list", <<Str(S_a)>>, "null"),
           Shape(Str(S_vmess), "null", "absent", <<>>, "absent"),
           Shape(Str(S_vless), "dict", "list", <<>>, "absent"),
           Shape(Str(S_vmess), "dict", "list", <<Str(S_b), Str(S_a)>>, "absent") }

MainConfigs ==
    {Document(shapes) : shapes \in SeqsUpTo(MainShapes, MaxInbounds)}
    \cup NoInboundsDocuments

\* <<server_address, client_email>> as the command line gives them
MainPositionals ==
    { <<None, None>>, <<Str(S_h), None>>, <<Str(S_h), Str(S_a)>>,
      <<Str(S_h), Str(S_b)>>, <<Str(S_h), Str(S_z)>> }

Init ==
    /\ pc = "start"
    /\ \E listemails \in BOOLEAN, qrcode \in BOOLEAN, positionals \in MainPositionals :
         args = [listemails |-> listemails, qrcode |-> qrcode,
                 server_address |-> positionals[1],
                 client_email |-> positionals[2]]
    /\ PYQRCODE_AVAILABLE \in BOOLEAN
    /\ config = NoConfig
    /\ emails = NoEmails
    /\ client_info = NoClientInfo("none")
    /\ url = NoUrl
    /\ stdout = <<>>
    /\ stderr = <<>>
    /\ exit_code = 0
    /\ calls = <<>>

\* parse_args, then the warning about a QR request that cannot be served
Startup ==
    /\ pc = "start"
    /\ stderr' = IF args.qrcode /\ ~PYQRCODE_AVAILABLE
                 THEN stderr \o <<MsgQrWarning, MsgQrInstall, MsgQrFallback, MsgQrRule>>
                 ELSE stderr
    /\ pc' = "read"
    /\ UNCHANGED <<args, PYQRCODE_AVAILABLE, config, emails, client_info, url,
                   stdout, exit_code, calls>>

\* open and json.load: the document, or one of the three handled failures
ReadConfig ==
    /\ pc = "read"
    /\ \/ \E document \in MainConfigs :
            /\ config' = document
            /\ pc' = "mode"
            /\ UNCHANGED <<stderr, exit_code>>
       \/ \E message \in {MsgFileNotFound, MsgJsonDecode, MsgReadError} :
            /\ stderr' = Append(stderr, message)
            /\ exit_code' = 1
            /\ pc' = "exit"
            /\ UNCHANGED config
    /\ UNCHANGED <<args, PYQRCODE_AVAILABLE, emails, client_info, url, stdout, calls>>

\* discovery mode
ListEmails ==
    /\ pc = "mode"
    /\ args.listemails
    /\ emails' = list_all_clients(config)
    /\ calls' = Append(calls, "list_all_clients")
    /\ IF emails'.raised
       THEN /\ stderr' = Append(stderr, MsgTraceback)
            /\ exit_code' = 1
            /\ UNCHANGED stdout
       ELSE IF emails'.list = <<>>
       THEN /\ stderr' = Append(stderr, MsgNoEmails)
            /\ exit_code' = 0
            /\ UNCHANGED stdout
       ELSE /\ stdout' = stdout \o <<Line(S_found_emails)>>
                         \o [k \in 1..Len(emails'.list) |->
                                Line(S_dash \o emails'.list[k].s)]
            /\ exit_code' = 0
            /\ UNCHANGED stderr
    /\ pc' = "exit"
    /\ UNCHANGED <<args, PYQRCODE_AVAILABLE, config, client_info, url>>

\* link mode needs both positional arguments
CheckArgs ==
    /\ pc = "mode"
    /\ ~args.listemails
    /\ IF ~truthy(args.server_address) \/ ~truthy(args.client_email)
       THEN /\ stderr' = Append(stderr, MsgUsage)
            /\ exit_code' = 2
            /\ pc' = "exit"
       ELSE /\ pc' = "lookup"
            /\ UNCHANGED <<stderr, exit_code>>
    /\ UNCHANGED <<args, PYQRCODE_AVAILABLE, config, emails, client_info, url,
                   stdout, calls>>

FindClient ==
    /\ pc = "lookup"
    /\ client_info' = find_client_config(config, args.client_email)
    /\ calls' = Append(calls, "find_client_config")
    /\ IF client_info'.t = "raise"
       THEN /\ stderr' = Append(stderr, MsgTraceback)
            /\ exit_code' = 1
            /\ pc' = "exit"
       ELSE IF client_info'.t = "none"
       THEN /\ stderr' = Append(stderr, MsgClientNotFound)
            /\ exit_code' = 1
            /\ pc' = "exit"
       ELSE /\ pc' = "encode"
            /\ UNCHANGED <<stderr, exit_code>>
    /\ UNCHANGED <<args, PYQRCODE_AVAILABLE, config, emails, url, stdout>>

\* the encoder main picks for a protocol, "" when it has none
EncoderOf(protocol) ==
    IF protocol = Str(S_vless) THEN "create_vless_url"
    ELSE IF protocol = Str(S_vmess) THEN "create_vmess_url"
    ELSE IF protocol = Str(S_trojan) THEN "create_trojan_url"
    ELSE ""

Encode ==
    /\ pc = "encode"
    /\ LET encoder == EncoderOf(client_info.protocol)
           result ==
               IF encoder = "create_vless_url"
               THEN create_vless_url(client_info, args.server_address.s)
               ELSE IF encoder = "create_vmess_url"
               THEN create_vmess_url(client_info, args.server_address.s)
               ELSE create_trojan_url(client_info, args.server_address.s)
       IN  IF encoder = ""
           THEN /\ stderr' = Append(stderr, MsgUnsupported)
                /\ exit_code' = 1
                /\ pc' = "exit"
                /\ UNCHANGED <<url, calls>>
           ELSE IF result.raised
           THEN /\ stderr' = Append(stderr, MsgEncoding)
                /\ exit_code' = 1
                /\ pc' = "exit"
                /\ calls' = Append(calls, encoder)
                /\ UNCHANGED url
           ELSE /\ url' = result
                /\ pc' = "output"
                /\ calls' = Append(calls, encoder)
                /\ UNCHANGED <<stderr, exit_code>>
    /\ UNCHANGED <<args, PYQRCODE_AVAILABLE, config, emails, client_info, stdout>>

\* the QR rendering, which the renderer may refuse
OutputQr ==
    /\ pc = "output"
    /\ args.qrcode /\ PYQRCODE_AVAILABLE
    /\ \E rendered \in BOOLEAN :
         IF rendered
         THEN /\ stdout' = Append(stdout, QrCode(url.url))
              /\ exit_code' = 0
              /\ UNCHANGED stderr
         ELSE /\ stderr' = Append(stderr, MsgQrError)
              /\ stdout' = stdout \o <<Line(<<>>), Line(S_url_instead), Line(url.url)>>
              /\ exit_code' = 1
    /\ pc' = "exit"
    /\ calls' = Append(calls, "pyqrcode.create")
    /\ UNCHANGED <<args, PYQRCODE_AVAILABLE, config, emails, client_info, url>>

OutputText ==
    /\ pc = "output"
    /\ ~(args.qrcode /\ PYQRCODE_AVAILABLE)
    /\ stdout' = Append(stdout, Line(url.url))
    /\ exit_code' = 0
    /\ pc' = "exit"
    /\ UNCHANGED <<args, PYQRCODE_AVAILABLE, config, emails, client_info, url,
                   stderr, calls>>

Next ==
    \/ Startup
    \/ ReadConfig
    \/ ListEmails
    \/ CheckArgs
    \/ FindClient
    \/ Encode
    \/ OutputQr
    \/ OutputText

Spec == Init /\ [][Next]_vars

----------------------------------------------------------------------------
(* Reading a link back: what a consumer of the URL does *)

Chr(code) == Ascii[code - 31]

B64Index == [c \in {B64Chars[i] : i \in 1..Len(B64Chars)} |->
                (CHOOSE i \in 1..Len(B64Chars) : B64Chars[i] = c) - 1]

B64Decode(cs) ==
    LET groups == Len(cs) \div 4
        pad == Cardinality({i \in 1..Len(cs) : cs[i] = "="})
        six(i) == IF cs[i] = "=" THEN 0 ELSE B64Index[cs[i]]
        word(g) == six(4 * g + 1) * 262144 + six(4 * g + 2) * 4096
                   + six(4 * g + 3) * 64 + six(4 * g + 4)
        byte(k) ==
            LET w == word((k - 1) \div 3)
                j == (k - 1) % 3
            IN  IF j = 0 THEN w \div 65536
                ELSE IF j = 1 THEN (w \div 256) % 256
                ELSE w % 256
    IN  [k \in 1..(3 * groups - pad) |-> Chr(byte(k))]

\* the string whose opening quote is before text[i]
RECURSIVE ParseString(_, _, _)
ParseString(text, i, acc) ==
    IF text[i] = "\"" THEN [s |-> acc, next |-> i + 1]
    ELSE IF text[i] = "\\" THEN ParseString(text, i + 2, Append(acc, text[i + 1]))
    ELSE ParseString(text, i + 1, Append(acc, text[i]))

RECURSIVE ParseNumber(_, _, _)
ParseNumber(text, i, acc) ==
    IF i <= Len(text) /\ text[i] \in {DigitChars[d] : d \in 1..10}
    THEN ParseNumber(text, i + 1,
                     10 * acc + (CHOOSE d \in 0..9 : DigitChars[d + 1] = text[i]))
    ELSE [v |-> Num(acc), next |-> i]

ParseValue(text, i) ==
    IF text[i] = "\""
    THEN LET str == ParseString(text, i + 1, <<>>)
         IN  [v |-> Str(str.s), next |-> str.next]
    ELSE IF SubSeq(text, i, i + 3) = <<"n", "u", "l", "l">>
    THEN [v |-> None, next |-> i + 4]
    ELSE ParseNumber(text, i, 0)

\* the members of a JSON object, in the order of the text
RECURSIVE ParseMembers(_, _, _)
ParseMembers(text, i, acc) ==
    IF text[i] = "}" THEN acc
    ELSE LET j == IF text[i] = "," THEN i + 1 ELSE i
             key == ParseString(text, j + 1, <<>>)
             val == ParseValue(text, key.next + 1)
         IN  ParseMembers(text, val.next, Append(acc, <<key.s, val.v>>))

JsonParse(text) == ParseMembers(text, 2, <<>>)

HasKey(obj, key) == \E i \in 1..Len(obj) : obj[i][1] = key

Lookup(obj, key) == obj[CHOOSE i \in 1..Len(obj) : obj[i][1] = key][2]

KeysAscending(obj) ==
    \A i \in 1..(Len(obj) - 1) : StrLess(obj[i][1], obj[i + 1][1])

\* the JSON object a vmess:// link carries
VmessPayload(link) == JsonParse(B64Decode(SubSeq(link, 9, Len(link))))

Occurs(part, text) ==
    \E i \in 1..(Len(text) - Len(part) + 1) :
        SubSeq(text, i, i + Len(part) - 1) = part

\* a field that is set: a non-empty string
IsSet(v) == v.t = "str" /\ v.s # <<>>

\* the text of a stored value: the string itself, None for a missing value
TextOf(v) == IF v.t = "str" THEN v.s
             ELSE IF v.t = "int" THEN int_str(v.n)
             ELSE <<"N", "o", "n", "e">>

\* the query string of the parameters that are on, in the order given
QueryOf(candidates) ==
    LET on == SelectSeq(candidates, LAMBDA c : c.on)
    IN  Join([i \in 1..Len(on) |-> on[i].k \o <<"=">> \o quote_plus(on[i].v)],
             <<"&">>)

Param(k, on, v) == [k |-> k, on |-> on, v |-> v]

\* the settings object named "{security}Settings"
NamedSecuritySettings(ss) ==
    IF ss.security = Str(S_tls) THEN ss.tlsSettings ELSE ss.xtlsSettings

IsTls(ss) == ss.security \in {Str(S_tls), Str(S_xtls)}

\* sni, fp and the ws / grpc parameters, the same for vless and trojan
TlsCandidates(ss) ==
    << Param(S_sni, IsTls(ss) /\ IsSet(NamedSecuritySettings(ss).serverName),
             NamedSecuritySettings(ss).serverName.s),
       Param(S_fp, IsTls(ss) /\ IsSet(NamedSecuritySettings(ss).fingerprint),
             NamedSecuritySettings(ss).fingerprint.s) >>

TransportCandidates(ss) ==
    << Param(S_path, ss.network = Str(S_ws) /\ IsSet(ss.wsSettings.path),
             ss.wsSettings.path.s),
       Param(S_host, ss.network = Str(S_ws) /\ IsSet(ss.wsSettings.headers.Host),
             ss.wsSettings.headers.Host.s),
       Param(S_serviceName,
             ss.network = Str(S_grpc) /\ IsSet(ss.grpcSettings.serviceName),
             ss.grpcSettings.serviceName.s) >>

Authority(info) ==
    <<"@">> \o args.server_address.s \o <<":">> \o TextOf(info.port)

Fragment(info) ==
    <<"#">> \o quote(IF info.client_data.email.t = "str"
                     THEN info.client_data.email.s ELSE <<>>)

S_example_url ==
    <<"v", "l", "e", "s", "s", ":", "/", "/", "1", "1", "1", "1", "1", "1", "1",
      "1", "-", "1", "1", "1", "1", "-", "1", "1", "1", "1", "-", "1", "1", "1",
      "1", "-", "1", "1", "1", "1", "1", "1", "1", "1", "1", "1", "1", "1", "@",
      "1", ".", "2", ".", "3", ".", "4", ":", "4", "4", "3", "?", "t", "y", "p",
      "e", "=", "w", "s", "&", "s", "e", "c", "u", "r", "i", "t", "y", "=", "t",
      "l", "s", "&", "s", "n", "i", "=", "e", "x", "a", "m", "p", "l", "e", ".",
      "c", "o", "m", "&", "p", "a", "t", "h", "=", "%", "2", "F", "r", "a", "y",
      "&", "h", "o", "s", "t", "=", "e", "x", "a", "m", "p", "l", "e", ".", "c",
      "o", "m", "#", "a", "l", "i", "c", "e">>

----------------------------------------------------------------------------
(* Properties of the Link Encoders (specification SpecEnc) *)

\* C3: whenever create_vless_url returns, the link is
\* vless://{id}@{address}:{port}?{query}#{email} and its query holds, in this
\* order and with nothing else: type (always, the stored network value, None when
\* there is none), security (if set and not "none"), flow (if set), sni and fp (if
\* security is tls or xtls and they are set in "{security}Settings"), path and
\* host (if network is ws and they are set) or serviceName (if network is grpc
\* and it is set); the example inbound gives the example link.
C3_VlessUrl ==
    (pc = "vless" /\ ~url.raised) =>
        LET info == client_info
            ss == info.stream_settings
            candidates ==
                << Param(S_type, TRUE, TextOf(ss.network)),
                   Param(S_security, IsSet(ss.security) /\ ss.security # Str(S_none),
                         ss.security.s),
                   Param(S_flow, IsSet(info.client_data.flow),
                         info.client_data.flow.s) >>
                \o TlsCandidates(ss) \o TransportCandidates(ss)
        IN  /\ url.url = S_vless_scheme \o TextOf(info.client_data.id)
                         \o Authority(info) \o <<"?">> \o QueryOf(candidates)
                         \o Fragment(info)
            /\ (info = ExampleInfo /\ args.server_address.s = ExampleAddress)
                   => url.url = S_example_url

C3_Witness ==
    /\ pc = "vless"
    /\ ~url.raised
    /\ IsSet(client_info.client_data.flow)
    /\ client_info.stream_settings.security = Str(S_tls)
    /\ client_info.stream_settings.network = Str(S_ws)
    /\ IsSet(client_info.stream_settings.tlsSettings.fingerprint)
    /\ IsSet(client_info.stream_settings.wsSettings.headers.Host)

\* C4: whenever create_trojan_url returns, the link is
\* trojan://{password}@{address}:{port}[?{query}]#{email} and its query holds, in
\* this order: security, sni, fp (security only if it is tls or xtls, sni and fp
\* only then and if set), type (if network is non-empty), path and host (ws) or
\* serviceName (grpc); with no parameter at all (security not tls or xtls,
\* network absent or empty) there is no '?' and '#' follows the port.
C4_TrojanUrl ==
    (pc = "trojan" /\ ~url.raised) =>
        LET info == client_info
            ss == info.stream_settings
            candidates ==
                << Param(S_security, IsTls(ss), ss.security.s) >>
                \o TlsCandidates(ss)
                \o << Param(S_type, IsSet(ss.network), ss.network.s) >>
                \o TransportCandidates(ss)
            base == S_trojan_scheme \o TextOf(info.client_data.password)
                    \o Authority(info)
        IN  IF IsTls(ss) \/ IsSet(ss.network)
            THEN url.url = base \o <<"?">> \o QueryOf(candidates) \o Fragment(info)
            ELSE /\ url.url = base \o Fragment(info)
                 /\ \A i \in 1..Len(url.url) : url.url[i] # "?"

C4_Witness ==
    /\ pc = "trojan"
    /\ ~url.raised
    /\ client_info.stream_settings.security = Str(<<"r", "e", "a", "l", "i", "t", "y">>)
    /\ client_info.stream_settings.network = Str(<<>>)
    /\ \A i \in 1..Len(url.url) : url.url[i] # "?"

\* C5: whenever create_vmess_url returns, the JSON object got by Base64-decoding
\* what follows vmess:// has its keys in ascending order and holds v = "2",
\* ps = the email, add = the address, port = the port as a string, id = the
\* client id, aid = alterId as a string ("0" when absent), net = network,
\* type = "none", tls = security if it is tls or xtls and "none" otherwise.
C5_VmessPayload ==
    (pc = "vmess" /\ ~url.raised) =>
        LET info == client_info
            client == info.client_data
            ss == info.stream_settings
            obj == VmessPayload(url.url)
        IN  /\ SubSeq(url.url, 1, 8) = S_vmess_scheme
            /\ KeysAscending(obj)
            /\ \A key \in {S_v, S_ps, S_add, S_port, S_id, S_aid, S_net, S_type,
                           S_tls} : HasKey(obj, key)
            /\ Lookup(obj, S_v) = Str(<<"2">>)
            /\ client.email.t # "absent" => Lookup(obj, S_ps) = client.email
            /\ Lookup(obj, S_add) = args.server_address
            /\ Lookup(obj, S_port) = Str(TextOf(info.port))
            /\ Lookup(obj, S_id) = client.id
            /\ Lookup(obj, S_aid) =
                   (IF client.alterId.t = "absent" THEN Str(<<"0">>)
                    ELSE Str(TextOf(client.alterId)))
            /\ Lookup(obj, S_net) = get(ss.network)
            /\ Lookup(obj, S_type) = Str(S_none)
            /\ Lookup(obj, S_tls) = (IF IsTls(ss) THEN ss.security ELSE Str(S_none))

C5_Witness ==
    /\ pc = "vmess"
    /\ ~url.raised
    /\ client_info.client_data.alterId = Absent
    /\ client_info.port = Num(443)
    /\ client_info.stream_settings.security = Str(S_xtls)
    /\ Lookup(VmessPayload(url.url), S_aid) = Str(<<"0">>)

\* C6: in the payload of a vmess link, network ws gives both path (wsSettings.path,
\* "/" when it has none) and host (wsSettings.headers.Host, the server address
\* when it has none); network grpc gives path = grpcSettings.serviceName (null
\* when unset) and no host; any other network gives neither.
C6_VmessTransport ==
    (pc = "vmess" /\ ~url.raised) =>
        LET ss == client_info.stream_settings
            obj == VmessPayload(url.url)
        IN  IF ss.network = Str(S_ws)
            THEN /\ HasKey(obj, S_path)
                 /\ HasKey(obj, S_host)
                 /\ Lookup(obj, S_path) =
                        (IF ss.wsSettings.path.t = "absent" THEN Str(<<"/">>)
                         ELSE ss.wsSettings.path)
                 /\ Lookup(obj, S_host) =
                        (IF ss.wsSettings.headers.Host.t = "absent"
                         THEN args.server_address
                         ELSE ss.wsSettings.headers.Host)
            ELSE IF ss.network = Str(S_grpc)
            THEN /\ HasKey(obj, S_path)
                 /\ Lookup(obj, S_path) =
                        (IF ss.grpcSettings.serviceName.t = "absent" THEN None
                         ELSE ss.grpcSettings.serviceName)
                 /\ ~HasKey(obj, S_host)
            ELSE ~HasKey(obj, S_path) /\ ~HasKey(obj, S_host)

C6_Witness ==
    /\ pc = "vmess"
    /\ ~url.raised
    /\ client_info.stream_settings.network = Str(S_grpc)
    /\ client_info.stream_settings.grpcSettings.t = "dict"
    /\ client_info.stream_settings.grpcSettings.serviceName = Absent
    /\ Lookup(VmessPayload(url.url), S_path) = None

\* C7: with security absent or "none", a vless or trojan link has no security
\* parameter and a vmess payload has tls = "none".
C7_NoSecurity ==
    (~url.raised /\ client_info.stream_settings.security \in {Absent, None, Str(S_none)})
        => /\ pc \in {"vless", "trojan"}
                => ~Occurs(S_security \o <<"=">>, url.url)
           /\ pc = "vmess" => Lookup(VmessPayload(url.url), S_tls) = Str(S_none)

C7_Witness ==
    /\ pc = "vless"
    /\ ~url.raised
    /\ client_info.stream_settings.security = Str(S_none)
    /\ client_info.stream_settings.tlsSettings = FullSecuritySettings
    /\ ~Occurs(S_security \o <<"=">>, url.url)

----------------------------------------------------------------------------
(* The Client Locator's contract, stated over the document itself *)

\* The inbounds a document holds: none when "inbounds" is missing or null.
InboundsOf(cfg) == IF cfg.inbounds.t = "list" THEN cfg.inbounds.list ELSE <<>>

\* The clients an inbound holds: none when its settings or its client list
\* are missing or null.
ClientsOf(inbound) ==
    IF inbound.settings.t = "dict" /\ inbound.settings.clients.t = "list"
    THEN inbound.settings.clients.list
    ELSE <<>>

SupportedInbounds(cfg) ==
    {i \in 1..Len(InboundsOf(cfg)) : InboundsOf(cfg)[i].protocol \in SupportedProtocols}

\* The emails of the clients of the supported inbounds; a client with no
\* email, or an empty one, has none.
EmailsIn(cfg) ==
    { ClientsOf(InboundsOf(cfg)[i])[j].email :
        <<i, j>> \in { ij \in SupportedInbounds(cfg) \X (1..MaxClients + 1) :
                         /\ ij[2] <= Len(ClientsOf(InboundsOf(cfg)[ij[1]]))
                         /\ IsSet(ClientsOf(InboundsOf(cfg)[ij[1]])[ij[2]].email) } }

Range(list) == {list[k] : k \in 1..Len(list)}

StrictlyAscending(list) ==
    \A k \in 1..(Len(list) - 1) : StrLess(list[k].s, list[k + 1].s)

ExactEmailList(list, cfg) ==
    /\ Range(list) = EmailsIn(cfg)
    /\ Len(list) = Cardinality(EmailsIn(cfg))
    /\ StrictlyAscending(list)

\* The places <<inbound, client>> of a document where the target email is
\* found, and the earliest of them in document order.
Matches(cfg, target) ==
    { ij \in SupportedInbounds(cfg) \X (1..MaxClients + 1) :
        /\ ij[2] <= Len(ClientsOf(InboundsOf(cfg)[ij[1]]))
        /\ ClientsOf(InboundsOf(cfg)[ij[1]])[ij[2]].email = target }

Earlier(a, b) == a[1] < b[1] \/ (a[1] = b[1] /\ a[2] <= b[2])

FirstMatch(cfg, target) ==
    CHOOSE m \in Matches(cfg, target) : \A o \in Matches(cfg, target) : Earlier(m, o)

\* The context of the client at a place: the client record, and the
\* enclosing inbound's protocol, port and stream settings (an empty object
\* when the inbound has none).
ContextAt(cfg, m) ==
    [t |-> "found",
     client_data |-> ClientsOf(InboundsOf(cfg)[m[1]])[m[2]],
     protocol |-> InboundsOf(cfg)[m[1]].protocol,
     port |-> InboundsOf(cfg)[m[1]].port,
     stream_settings |->
         IF InboundsOf(cfg)[m[1]].streamSettings.t = "absent"
         THEN EmptyStreamSettings
         ELSE InboundsOf(cfg)[m[1]].streamSettings]

\* C1: list_all returns exactly the set of non-empty emails of the clients of
\* the supported inbounds, without duplicates, in ascending lexicographic
\* order; being a function of the document alone, a second application to the
\* same document returns the same list.
C1_ListAllExact ==
    pc = "list_all" =>
        /\ ~emails.raised
        /\ ExactEmailList(emails.list, config)
        /\ list_all_clients(config) = emails

\* What list_all_clients returns, whenever it returns, is the exact list.
ListAllExactWhenReturned ==
    (pc = "list_all" /\ ~emails.raised) =>
        /\ ExactEmailList(emails.list, config)
        /\ list_all_clients(config) = emails

\* C2: find_by_email returns the first client, in document order over the
\* supported inbounds, whose email equals the target, with the enclosing
\* inbound's protocol, port and stream settings; it reports "not found" when
\* there is none; a client with no email is never returned.
C2_FindFirstMatch ==
    pc = "find" =>
        /\ client_info.t # "raise"
        /\ IF Matches(config, args.client_email) = {}
           THEN client_info = NoClientInfo("none")
           ELSE client_info = ContextAt(config, FirstMatch(config, args.client_email))
        /\ client_info.t = "found" => client_info.client_data.email.t # "absent"

\* What find_client_config returns, whenever it returns, is the first match
\* among the inbounds it walked, or "not found".
FindFirstMatchWhenReturned ==
    (pc = "find" /\ client_info.t # "raise") =>
        /\ IF Matches(config, args.client_email) = {}
           THEN client_info = NoClientInfo("none")
           ELSE client_info = ContextAt(config, FirstMatch(config, args.client_email))
        /\ client_info.t = "found" => client_info.client_data.email.t # "absent"

\* C9: the Client Locator never raises on a parseable document: missing or
\* null keys and unexpected shapes yield an empty list or "not found".
C9_LocatorNeverRaises ==
    /\ pc = "list_all" => ~emails.raised
    /\ pc = "find" => client_info.t # "raise"

----------------------------------------------------------------------------
(* The run as a whole: exit codes and the calls made *)

Count(list, x) == Cardinality({k \in 1..Len(list) : list[k] = x})

EncoderCalls ==
    SelectSeq(calls, LAMBDA c :
        c \in {"create_vless_url", "create_vmess_url", "create_trojan_url"})

ReadFailed ==
    \E message \in {MsgFileNotFound, MsgJsonDecode, MsgReadError} :
        message \in Range(stderr)

UrlProduced == url.url # <<>>
UrlPrinted == UrlProduced /\ Line(url.url) \in Range(stdout)
QrPrinted == UrlProduced /\ QrCode(url.url) \in Range(stdout)

\* The exit code a finished run must have, case by case.
ExitCodeRules ==
    /\ ReadFailed => exit_code = 1
    /\ (~ReadFailed /\ args.listemails) => exit_code = 0
    /\ (~ReadFailed /\ ~args.listemails) =>
         /\ exit_code = 0 <=> (QrPrinted \/ (UrlPrinted /\ MsgQrError \notin Range(stderr)))
         /\ MsgClientNotFound \in Range(stderr) => exit_code = 1
         /\ MsgEncoding \in Range(stderr) => exit_code = 1
         /\ MsgQrError \in Range(stderr) => (exit_code = 1 /\ UrlPrinted)
         /\ (args.qrcode /\ ~PYQRCODE_AVAILABLE) =>
              /\ MsgQrWarning \in Range(stderr)
              /\ UrlProduced => (UrlPrinted /\ ~QrPrinted /\ exit_code = 0)

\* C8: a run ends with exit code 0 exactly when its task succeeded: discovery
\* mode exits 0 once the configuration is read; link mode exits 0 when the URL
\* or its QR rendering was printed; the run exits 1 on a read failure, client
\* not found, an encoder exception and a QR rendering exception (the plain URL
\* still printed); a QR request without the rendering capability gives a
\* warning, the plain URL and exit code 0.
C8_ExitCodes == pc = "exit" => ExitCodeRules

\* The same rules hold of every run in which no exception escapes main.
ExitCodesWhenNothingEscapes ==
    (pc = "exit" /\ MsgTraceback \notin Range(stderr)) => ExitCodeRules

\* C10: a context the lookup returns has one of the three protocols; a run
\* performs at most one lookup; after a successful lookup exactly one encoder
\* is invoked, the one of the context's protocol; no encoder is invoked in
\* discovery mode or after a failed lookup; the "Unsupported protocol" exit is
\* never taken.
C10_OneMatchingEncoder ==
    /\ client_info.t = "found" => client_info.protocol \in {Str(S_vless), Str(S_vmess), Str(S_trojan)}
    /\ Count(calls, "find_client_config") <= 1
    /\ Len(EncoderCalls) <= 1
    /\ (client_info.t = "found" /\ pc \in {"output", "exit"}) =>
         /\ client_info.protocol = Str(S_vless) => EncoderCalls = <<"create_vless_url">>
         /\ client_info.protocol = Str(S_vmess) => EncoderCalls = <<"create_vmess_url">>
         /\ client_info.protocol = Str(S_trojan) => EncoderCalls = <<"create_trojan_url">>
    /\ (args.listemails \/ client_info.t # "found") => EncoderCalls = <<>>
    /\ MsgUnsupported \notin Range(stderr)

C10_Witness ==
    /\ pc = "exit"
    /\ exit_code = 0
    /\ Len(config.inbounds.list) = MaxInbounds
    /\ config.inbounds.list[1].protocol = Str(S_shadowsocks)
    /\ client_info.t = "found"
    /\ client_info.protocol = Str(S_vmess)
    /\ calls = <<"find_client_config", "create_vmess_url">>

====
